---------------------------- MODULE Spec2Model ----------------------------
(***************************************************************************)
(* A model of notion-core's Session (crates/notion-core/src/session.rs):   *)
(* the lazily loaded hooks and inventory, the user toolchain, the project  *)
(* handle, the fetch / install / pin / ensure operations, the platform     *)
(* accessors and the exit protocol.                                        *)
(*                                                                         *)
(* Every Session method is one action.  The collaborators the Session      *)
(* calls (LazyHooks, LazyInventory, Inventory, Toolchain, Project,         *)
(* EventLog) live in other files; they are modelled by their interface,    *)
(* with every outcome they can report chosen nondeterministically.         *)
(* `trace` holds the collaborator calls of the latest Session call, in     *)
(* order, and `result` what that call was and what it returned.            *)
(* The add_event_* methods only forward to the event log and are left out. *)
(*                                                                         *)
(* The second part models the tool hooks (crates/notion-core/src/hook/     *)
(* tool.rs): DistroHook::resolve, MetadataHook::resolve and                *)
(* execute_binary, on strings that are sequences of characters.            *)
(***************************************************************************)
EXTENDS Integers, Sequences, FiniteSets, TLC

\* Node versions are 1..MaxVersion, Yarn versions 1..MaxYarn.
MaxVersion == 2
MaxYarn == 1
\* Exit codes are 0..MaxCode.
MaxCode == 1
\* The load counters stop counting at MaxLoads.
MaxLoads == 2

Tools == {"node", "yarn"}
Versions == [node |-> 1 .. MaxVersion, yarn |-> 1 .. MaxYarn]
ExitCodes == 0 .. MaxCode

\* Option<T>: None is the empty set, Some(x) the singleton.
None == {}
Some(x) == {x}
unwrap(o) == CHOOSE x \in o : TRUE
OptionOf(S) == {None} \cup {Some(x) : x \in S}

\* A version requirement, as the set of versions that satisfy it: the
\* requirement of one exact version, and the requirement every version meets.
exact(version) == {version}
VersionSpecs == [tool \in Tools |->
                   {exact(v) : v \in Versions[tool]} \cup {Versions[tool]}]

PlatformSpecs == [node : Versions.node, yarn : OptionOf(Versions.yarn)]
Projects == [platform : OptionOf(PlatformSpecs)]

VARIABLES
    hooks,           \* Session.hooks: the LazyHooks cell
    inventory,       \* Session.inventory: the LazyInventory cell and its contents
    toolchain,       \* Session.toolchain: the user's active versions
    project,         \* Session.project: Option<Rc<Project>>, fixed at construction
    event_log,       \* Session.event_log
    hooksFile,       \* the hooks configuration on disk
    inventoryDir,    \* whether the inventory on disk can be read
    pc,              \* "running" until exit / exit_tool ends the process
    exitCode,        \* the code the process ended with
    hooksLoads,      \* how often the hooks were loaded in this Session
    inventoryLoads,  \* how often the inventory was loaded in this Session
    trace,           \* collaborator calls of the latest Session call
    result,          \* the latest Session call and what it returned
    tool_hook,       \* a configured DistroHook / MetadataHook value
    resolution       \* the latest resolve() of tool_hook and what it returned

vars == <<hooks, inventory, toolchain, project, event_log, hooksFile,
          inventoryDir, pc, exitCode, hooksLoads, inventoryLoads,
          trace, result, tool_hook, resolution>>

----------------------------------------------------------------------------
\* One collaborator call: what was called, with what, and what came back.
Call(call, arg, ret, tag) == [call |-> call, arg |-> arg, ret |-> ret, tag |-> tag]

\* The part of the state a Session call works on.
Cur == [hooks |-> hooks, inventory |-> inventory, toolchain |-> toolchain,
        project |-> project, event_log |-> event_log,
        hooksLoads |-> hooksLoads, inventoryLoads |-> inventoryLoads,
        trace |-> <<>>]

Log(s, c) == [s EXCEPT !.trace = Append(@, c)]

\* Where in a trace the calls of the given names are.
Indices(tr, names) == {i \in DOMAIN tr : tr[i].call \in names}

Bump(n) == IF n < MaxLoads THEN n + 1 ELSE n

NoResult(op) == [op |-> op, spec |-> {}, version |-> 0, code |-> 0,
                 outcome |-> "Ok", value |-> {}]


----------------------------------------------------------------------------
\* Collaborators of the Session.  Each takes the state `s` the call sees and
\* gives the set of outcomes it can have: the state after and whether it
\* returned Ok.

\* LazyHooks::get: the hooks already loaded are handed out as they are; an
\* empty cell loads them from the configuration.  A load that fails may or
\* may not be remembered by the cell.
LazyHooks_get(s) ==
    IF s.hooks.cell = "value" THEN {[s |-> s, ok |-> TRUE]}
    ELSE IF s.hooks.cell = "error" THEN {[s |-> s, ok |-> FALSE]}
    ELSE LET t == [Log(s, Call("hooks.load", {}, {}, hooksFile))
                     EXCEPT !.hooksLoads = Bump(@)]
         IN  IF hooksFile = "malformed"
             THEN {[s |-> [t EXCEPT !.hooks.cell = c], ok |-> FALSE]
                     : c \in {"empty", "error"}}
             ELSE {[s |-> [t EXCEPT !.hooks = [cell |-> "value",
                                               publish |-> hooksFile = "publish"]],
                    ok |-> TRUE]}

\* LazyInventory::get / get_mut: as LazyHooks::get, for the inventory.
LazyInventory_get(s) ==
    IF s.inventory.cell = "value" THEN {[s |-> s, ok |-> TRUE]}
    ELSE IF s.inventory.cell = "error" THEN {[s |-> s, ok |-> FALSE]}
    ELSE LET t == [Log(s, Call("inventory.load", {}, {},
                               IF inventoryDir THEN "Ok" ELSE "Err"))
                     EXCEPT !.inventoryLoads = Bump(@)]
         IN  IF ~inventoryDir
             THEN {[s |-> [t EXCEPT !.inventory.cell = c], ok |-> FALSE]
                     : c \in {"empty", "error"}}
             ELSE {[s |-> [t EXCEPT !.inventory.cell = "value"], ok |-> TRUE]}

ContainsCall == [node |-> "inventory.node.contains", yarn |-> "inventory.yarn.contains"]
FetchCall == [node |-> "inventory.fetch_node", yarn |-> "inventory.fetch_yarn"]
SetActiveCall == [node |-> "toolchain.set_active_node", yarn |-> "toolchain.set_active_yarn"]
PinCall == [node |-> "project.pin_node_in_toolchain", yarn |-> "project.pin_yarn_in_toolchain"]

\* distro::Fetched: the version, and whether it was there already or fetched now.
Fetched(kind, version) == [kind |-> kind, version |-> version]
into_version(fetched) == fetched.version

\* Collection::contains on the inventory's versions of a tool.
contains(s, tool, version) == version \in s.inventory[tool]

\* Inventory::fetch_node / fetch_yarn: resolves the requirement to one of
\* the versions that satisfy it; reports Already when the inventory has it,
\* else fetches it, records it and reports Now; or fails and changes nothing.
Inventory_fetch(s, tool, matching) ==
    {[s |-> Log(s, Call(FetchCall[tool], matching, {}, "Err")),
      ok |-> FALSE, fetched |-> None]}
    \cup
    {IF contains(s, tool, v)
       THEN [s |-> Log(s, Call(FetchCall[tool], matching, {v}, "Already")),
             ok |-> TRUE, fetched |-> Some(Fetched("Already", v))]
       ELSE [s |-> [Log(s, Call(FetchCall[tool], matching, {v}, "Now"))
                      EXCEPT !.inventory[tool] = @ \cup {v}],
             ok |-> TRUE, fetched |-> Some(Fetched("Now", v))]
     : v \in matching}

\* Toolchain::set_active_node / set_active_yarn: makes the version the
\* active one and saves the toolchain; when saving fails the active version
\* may or may not have been replaced.
Toolchain_set_active(s, tool, version) ==
    LET c(tag) == Log(s, Call(SetActiveCall[tool], {version}, {}, tag))
    IN  {[s |-> [c("Ok") EXCEPT !.toolchain[tool] = Some(version)], ok |-> TRUE],
         [s |-> [c("Err") EXCEPT !.toolchain[tool] = Some(version)], ok |-> FALSE],
         [s |-> c("Err"), ok |-> FALSE]}

\* Toolchain::get_active_node / get_active_yarn.
Toolchain_get_active(s, tool) == s.toolchain[tool]

\* Project::pin_node_in_toolchain / pin_yarn_in_toolchain: writes the version
\* into the toolchain section of the manifest on disk, or fails.  It is the
\* only writer of the manifest, so the manifest is written exactly where the
\* trace shows this call.  The Project value the Session shares (and so its
\* platform()) is not touched.
Project_pin_in_toolchain(s, tool, version) ==
    {[s |-> Log(s, Call(PinCall[tool], {version}, {}, "Ok")), ok |-> TRUE],
     [s |-> Log(s, Call(PinCall[tool], {version}, {}, "Err")), ok |-> FALSE]}

\* Project::platform: the pin the project was constructed with.
Project_platform(p) == p.platform

\* EventLog::publish: hands the log to the publish hook, if there is one.
EventLog_publish(s, plugin) ==
    [Log(s, Call("event_log.publish", {}, {},
                 IF plugin = None THEN "None" ELSE "Some"))
       EXCEPT !.event_log.published = TRUE]

----------------------------------------------------------------------------
\* The Session's methods.  Each gives the set of ways the call can end: the
\* state after, the outcome (Ok or the error returned) and the value returned.

Ret(s, outcome, value) == [s |-> s, outcome |-> outcome, value |-> value]

\* Session::project
Session_project(p) == p

project_platform_needs_yarn(p) ==
    IF p # None /\ Project_platform(unwrap(p)) # None
                /\ unwrap(Project_platform(unwrap(p))).yarn # None
    THEN Project_platform(unwrap(p)) ELSE None

\* Session::project_platform
project_platform(p) ==
    IF p # None THEN Project_platform(unwrap(p)) ELSE None

\* Session::user_node / Session::user_yarn
user_node(s) == Toolchain_get_active(s, "node")
user_yarn(s) == Toolchain_get_active(s, "yarn")

user_platform_no_yarn(s) ==
    IF user_node(s) # None
    THEN Some([node |-> unwrap(user_node(s)), yarn |-> None])
    ELSE None

\* Session::user_platform
user_platform(s) ==
    IF user_node(s) # None
    THEN IF user_yarn(s) # None
         THEN Some([node |-> unwrap(user_node(s)), yarn |-> Some(unwrap(user_yarn(s)))])
         ELSE Some([node |-> unwrap(user_node(s)), yarn |-> None])
    ELSE None

current_platform_merge(p, s) ==
    IF project_platform(p) # None
    THEN IF unwrap(project_platform(p)).yarn = None
         THEN Some([node |-> unwrap(project_platform(p)).node, yarn |-> user_yarn(s)])
         ELSE project_platform(p)
    ELSE IF user_platform(s) # None THEN user_platform(s)
    ELSE None

\* Session::current_platform
current_platform(p, s) ==
    IF project_platform(p) # None THEN project_platform(p)
    ELSE IF user_platform(s) # None THEN user_platform(s)
    ELSE None

\* Session::inventory / Session::inventory_mut
Session_inventory(s) ==
    {Ret(i.s, IF i.ok THEN "Ok" ELSE "InventoryError", {}) : i \in LazyInventory_get(s)}

Session_hooks_reload(s) ==
    {Ret(h.s, IF h.ok THEN "Ok" ELSE "HooksError", {})
       : h \in LazyHooks_get([s EXCEPT !.hooks.cell = "empty"])}

\* Session::hooks
Session_hooks(s) ==
    {Ret(h.s, IF h.ok THEN "Ok" ELSE "HooksError", {}) : h \in LazyHooks_get(s)}

ensure_always_fetch(s, tool, version) ==
    UNION {
      IF ~i.ok THEN {Ret(i.s, "InventoryError", {})}
      ELSE LET present == contains(i.s, tool, version)
               c == Log(i.s, Call(ContainsCall[tool], {version}, {},
                                  IF present THEN "true" ELSE "false"))
           IN  UNION {
                 IF ~h.ok THEN {Ret(h.s, "HooksError", {})}
                 ELSE {Ret(f.s, IF f.ok THEN "Ok" ELSE "FetchError", {})
                         : f \in Inventory_fetch(h.s, tool, exact(version))}
                 : h \in LazyHooks_get(c)}
      : i \in LazyInventory_get(s)}

ensure_hooks_first(s, tool, version) ==
    UNION {
      IF ~i.ok THEN {Ret(i.s, "InventoryError", {})}
      ELSE UNION {
             IF ~h.ok THEN {Ret(h.s, "HooksError", {})}
             ELSE LET present == contains(h.s, tool, version)
                      c == Log(h.s, Call(ContainsCall[tool], {version}, {},
                                         IF present THEN "true" ELSE "false"))
                  IN  IF ~present
                      THEN {Ret(f.s, IF f.ok THEN "Ok" ELSE "FetchError", {})
                              : f \in Inventory_fetch(c, tool, exact(version))}
                      ELSE {Ret(c, "Ok", {})}
             : h \in LazyHooks_get(i.s)}
      : i \in LazyInventory_get(s)}

\* Session::ensure_node / Session::ensure_yarn
ensure(s, tool, version) ==
    UNION {
      IF ~i.ok THEN {Ret(i.s, "InventoryError", {})}
      ELSE LET present == contains(i.s, tool, version)
               c == Log(i.s, Call(ContainsCall[tool], {version}, {},
                                  IF present THEN "true" ELSE "false"))
           IN  IF ~present
               THEN UNION {
                      IF ~h.ok THEN {Ret(h.s, "HooksError", {})}
                      ELSE {Ret(f.s, IF f.ok THEN "Ok" ELSE "FetchError", {})
                              : f \in Inventory_fetch(h.s, tool, exact(version))}
                      : h \in LazyHooks_get(c)}
               ELSE {Ret(c, "Ok", {})}
      : i \in LazyInventory_get(s)}

ensure_node(s, version) == ensure(s, "node", version)
ensure_yarn(s, version) == ensure(s, "yarn", version)

fetch_and_activate(s, tool, matching) ==
    UNION {
      IF ~i.ok THEN {Ret(i.s, "InventoryError", None)}
      ELSE UNION {
             IF ~h.ok THEN {Ret(h.s, "HooksError", None)}
             ELSE {Ret(IF f.ok
                       THEN [f.s EXCEPT !.toolchain[tool] =
                                          Some(into_version(unwrap(f.fetched)))]
                       ELSE f.s,
                       IF f.ok THEN "Ok" ELSE "FetchError", f.fetched)
                     : f \in Inventory_fetch(h.s, tool, matching)}
             : h \in LazyHooks_get(i.s)}
      : i \in LazyInventory_get(s)}

\* Session::fetch_node / Session::fetch_yarn
fetch(s, tool, matching) ==
    UNION {
      IF ~i.ok THEN {Ret(i.s, "InventoryError", None)}
      ELSE UNION {
             IF ~h.ok THEN {Ret(h.s, "HooksError", None)}
             ELSE {Ret(f.s, IF f.ok THEN "Ok" ELSE "FetchError", f.fetched)
                     : f \in Inventory_fetch(h.s, tool, matching)}
             : h \in LazyHooks_get(i.s)}
      : i \in LazyInventory_get(s)}

fetch_node(s, matching) == fetch(s, "node", matching)
fetch_yarn(s, matching) == fetch(s, "yarn", matching)

install_any_match(s, tool, matching) ==
    UNION {
      IF ~i.ok THEN {Ret(i.s, "InventoryError", {})}
      ELSE UNION {
             IF ~h.ok THEN {Ret(h.s, "HooksError", {})}
             ELSE UNION {
                    IF ~f.ok THEN {Ret(f.s, "FetchError", {})}
                    ELSE UNION {{Ret(w.s, IF w.ok THEN "Ok" ELSE "ToolchainError", {})
                                   : w \in Toolchain_set_active(f.s, tool, v)}
                                : v \in matching}
                    : f \in Inventory_fetch(h.s, tool, matching)}
             : h \in LazyHooks_get(i.s)}
      : i \in LazyInventory_get(s)}

install_masks_error(s, tool, matching) ==
    UNION {
      IF ~i.ok THEN {Ret(i.s, "InventoryError", {})}
      ELSE UNION {
             IF ~h.ok THEN {Ret(h.s, "HooksError", {})}
             ELSE UNION {
                    IF ~f.ok THEN {Ret(f.s, "Ok", {})}
                    ELSE {Ret(w.s, IF w.ok THEN "Ok" ELSE "ToolchainError", {})
                            : w \in Toolchain_set_active(
                                        f.s, tool, into_version(unwrap(f.fetched)))}
                    : f \in Inventory_fetch(h.s, tool, matching)}
             : h \in LazyHooks_get(i.s)}
      : i \in LazyInventory_get(s)}

install_no_write(s, tool, matching) ==
    UNION {
      IF ~i.ok THEN {Ret(i.s, "InventoryError", {})}
      ELSE UNION {
             IF ~h.ok THEN {Ret(h.s, "HooksError", {})}
             ELSE {Ret(f.s, IF f.ok THEN "Ok" ELSE "FetchError", {})
                     : f \in Inventory_fetch(h.s, tool, matching)}
             : h \in LazyHooks_get(i.s)}
      : i \in LazyInventory_get(s)}

\* Session::install_node / Session::install_yarn
install(s, tool, matching) ==
    UNION {
      IF ~i.ok THEN {Ret(i.s, "InventoryError", {})}
      ELSE UNION {
             IF ~h.ok THEN {Ret(h.s, "HooksError", {})}
             ELSE UNION {
                    IF ~f.ok THEN {Ret(f.s, "FetchError", {})}
                    ELSE {Ret(w.s, IF w.ok THEN "Ok" ELSE "ToolchainError", {})
                            : w \in Toolchain_set_active(
                                        f.s, tool, into_version(unwrap(f.fetched)))}
                    : f \in Inventory_fetch(h.s, tool, matching)}
             : h \in LazyHooks_get(i.s)}
      : i \in LazyInventory_get(s)}

install_node(s, matching) == install(s, "node", matching)
install_yarn(s, matching) == install(s, "yarn", matching)

pin_version_fetch_first(p, s, tool, matching) ==
    UNION {
      IF f.outcome # "Ok" THEN {Ret(f.s, f.outcome, {})}
      ELSE IF Session_project(p) # None
           THEN {Ret(w.s, IF w.ok THEN "Ok" ELSE "ProjectError", {})
                   : w \in Project_pin_in_toolchain(
                               f.s, tool, into_version(unwrap(f.value)))}
           ELSE {Ret(f.s, "NotInPackageError", {})}
      : f \in fetch(s, tool, matching)}

pin_version_any_match(p, s, tool, matching) ==
    IF Session_project(p) # None
    THEN UNION {
           IF f.outcome # "Ok" THEN {Ret(f.s, f.outcome, {})}
           ELSE UNION {{Ret(w.s, IF w.ok THEN "Ok" ELSE "ProjectError", {})
                          : w \in Project_pin_in_toolchain(f.s, tool, v)}
                       : v \in matching}
           : f \in fetch(s, tool, matching)}
    ELSE {Ret(s, "NotInPackageError", {})}

pin_version_updates_handle(p, s, tool, matching) ==
    IF Session_project(p) # None
    THEN UNION {
           IF f.outcome # "Ok" THEN {Ret(f.s, f.outcome, {})}
           ELSE {Ret(IF w.ok /\ tool = "node"
                     THEN [w.s EXCEPT !.project =
                             Some([platform |->
                                     Some([node |-> into_version(unwrap(f.value)),
                                           yarn |-> None])])]
                     ELSE w.s,
                     IF w.ok THEN "Ok" ELSE "ProjectError", {})
                   : w \in Project_pin_in_toolchain(
                               f.s, tool, into_version(unwrap(f.value)))}
           : f \in fetch(s, tool, matching)}
    ELSE {Ret(s, "NotInPackageError", {})}

\* Session::pin_node_version / Session::pin_yarn_version
pin_version(p, s, tool, matching) ==
    IF Session_project(p) # None
    THEN UNION {
           IF f.outcome # "Ok" THEN {Ret(f.s, f.outcome, {})}
           ELSE {Ret(w.s, IF w.ok THEN "Ok" ELSE "ProjectError", {})
                   : w \in Project_pin_in_toolchain(
                               f.s, tool, into_version(unwrap(f.value)))}
           : f \in fetch(s, tool, matching)}
    ELSE {Ret(s, "NotInPackageError", {})}

pin_node_version(p, s, matching) == pin_version(p, s, "node", matching)
pin_yarn_version(p, s, matching) == pin_version(p, s, "yarn", matching)

\* publish_plugin: the publish hook of the hooks, when the hooks resolve.
publish_plugin(s) ==
    {[s |-> h.s, ok |-> h.ok,
      plugin |-> IF h.ok /\ h.s.hooks.publish THEN Some("publish") ELSE None]
       : h \in LazyHooks_get(s)}

publish_to_event_log_if_hook(s) ==
    {IF r.ok THEN (IF r.plugin # None THEN EventLog_publish(r.s, r.plugin) ELSE r.s)
     ELSE Log(r.s, Call("eprintln", {}, {}, "Warning: invalid config file"))
       : r \in publish_plugin(s)}

\* Session::publish_to_event_log
publish_to_event_log(s) ==
    {IF r.ok THEN EventLog_publish(r.s, r.plugin)
     ELSE Log(r.s, Call("eprintln", {}, {}, "Warning: invalid config file"))
       : r \in publish_plugin(s)}

----------------------------------------------------------------------------
\* Session::new: nothing is loaded yet.  The fields that do not depend on
\* where the Session starts.
InitSession ==
    /\ hooks = [cell |-> "empty", publish |-> FALSE]
    /\ event_log = [published |-> FALSE]
    /\ pc = "running"
    /\ exitCode = None
    /\ hooksLoads = 0
    /\ inventoryLoads = 0
    /\ trace = <<>>
    /\ result = NoResult("new")

\* No tool hook is being resolved.
NoResolution == [kind |-> "none", version |-> 0, filename |-> <<>>,
                 child |-> [spawn |-> FALSE, stdout |-> {}, status |-> 0],
                 outcome |-> "Ok", url |-> <<>>, command |-> {}]
InitNoHook ==
    /\ tool_hook = [variant |-> "Prefix", text |-> <<>>]
    /\ resolution = NoResolution

\* A Session started on a machine that has no Yarn yet and at most the first
\* version of Node fetched and active, in no project, in a project without a
\* pin or in a project that pins Node only.  The operations reach the other
\* inventories and toolchains from there.  The hook configuration has a
\* publish hook, has none (tried outside a project) or does not parse; the
\* inventory can be read or not.
Init ==
    /\ InitSession
    /\ InitNoHook
    /\ inventory \in [cell : {"empty"}, node : SUBSET {1}, yarn : {{}}]
    /\ toolchain \in [node : OptionOf({1}), yarn : {None}]
    /\ project \in {None, Some([platform |-> None]),
                    Some([platform |-> Some([node |-> MaxVersion, yarn |-> None])])}
    /\ hooksFile \in {"publish", "nopublish", "malformed"}
    /\ inventoryDir \in BOOLEAN
    /\ hooksFile = "nopublish" => project = None

\* The state after a call that ended as `o`.
Commit(o) ==
    /\ hooks' = o.s.hooks
    /\ inventory' = o.s.inventory
    /\ toolchain' = o.s.toolchain
    /\ event_log' = o.s.event_log
    /\ hooksLoads' = o.s.hooksLoads
    /\ inventoryLoads' = o.s.inventoryLoads
    /\ trace' = o.s.trace
    /\ project' = o.s.project
    /\ UNCHANGED <<hooksFile, inventoryDir, tool_hook, resolution>>

Return(op, spec, version, o) ==
    /\ pc = "running"
    /\ Commit(o)
    /\ result' = [op |-> op, spec |-> spec, version |-> version, code |-> 0,
                  outcome |-> o.outcome, value |-> o.value]
    /\ UNCHANGED <<pc, exitCode>>

CurrentPlatform ==
    Return("current_platform", {}, 0, Ret(Cur, "Ok", current_platform(project, Cur)))

UserPlatform ==
    Return("user_platform", {}, 0, Ret(Cur, "Ok", user_platform(Cur)))

ProjectPlatform ==
    Return("project_platform", {}, 0, Ret(Cur, "Ok", project_platform(project)))

Inventory == \E o \in Session_inventory(Cur) : Return("inventory", {}, 0, o)

InventoryMut == \E o \in Session_inventory(Cur) : Return("inventory_mut", {}, 0, o)

Hooks == \E o \in Session_hooks(Cur) : Return("hooks", {}, 0, o)

EnsureNode ==
    \E v \in Versions.node : \E o \in ensure_node(Cur, v) : Return("ensure_node", {}, v, o)

EnsureYarn ==
    \E v \in Versions.yarn : \E o \in ensure_yarn(Cur, v) : Return("ensure_yarn", {}, v, o)

FetchNode ==
    \E m \in VersionSpecs.node : \E o \in fetch_node(Cur, m) : Return("fetch_node", m, 0, o)

FetchYarn ==
    \E m \in VersionSpecs.yarn : \E o \in fetch_yarn(Cur, m) : Return("fetch_yarn", m, 0, o)

InstallNode ==
    \E m \in VersionSpecs.node : \E o \in install_node(Cur, m) : Return("install_node", m, 0, o)

InstallYarn ==
    \E m \in VersionSpecs.yarn : \E o \in install_yarn(Cur, m) : Return("install_yarn", m, 0, o)

PinNodeVersion ==
    \E m \in VersionSpecs.node : \E o \in pin_node_version(project, Cur, m) :
        Return("pin_node_version", m, 0, o)

PinYarnVersion ==
    \E m \in VersionSpecs.yarn : \E o \in pin_yarn_version(project, Cur, m) :
        Return("pin_yarn_version", m, 0, o)

\* ExitCode::exit / std::process::exit: the process ends with the code.
process_exit(s, code) == Log(s, Call("process.exit", {code}, {}, ""))

Session_exit_error_code(s, code) ==
    {[s |-> process_exit(p, IF Indices(p.trace, {"eprintln"}) # {} THEN MaxCode ELSE code),
      code |-> IF Indices(p.trace, {"eprintln"}) # {} THEN MaxCode ELSE code]
       : p \in publish_to_event_log(s)}

\* Session::exit / Session::exit_tool
Session_exit(s, code) ==
    {[s |-> process_exit(p, code), code |-> code] : p \in publish_to_event_log(s)}

Terminate(op, code, o) ==
    /\ pc = "running"
    /\ Commit(o)
    /\ pc' = "exited"
    /\ exitCode' = Some(o.code)
    /\ result' = [op |-> op, spec |-> {}, version |-> 0, code |-> code,
                  outcome |-> "exit", value |-> {}]

Exit ==
    \E code \in ExitCodes : \E o \in Session_exit(Cur, code) : Terminate("exit", code, o)

ExitTool ==
    \E code \in ExitCodes : \E o \in Session_exit(Cur, code) : Terminate("exit_tool", code, o)

Next ==
    \/ CurrentPlatform \/ UserPlatform \/ ProjectPlatform
    \/ Inventory \/ InventoryMut \/ Hooks
    \/ EnsureNode \/ EnsureYarn
    \/ FetchNode \/ FetchYarn
    \/ InstallNode \/ InstallYarn
    \/ PinNodeVersion \/ PinYarnVersion
    \/ Exit \/ ExitTool

Spec == Init /\ [][Next]_vars

\* The platform accessors over every project and every user toolchain.
InitPlatform ==
    /\ InitSession
    /\ InitNoHook
    /\ inventory = [cell |-> "empty", node |-> {}, yarn |-> {}]
    /\ toolchain \in [node : OptionOf(Versions.node), yarn : OptionOf(Versions.yarn)]
    /\ project \in OptionOf(Projects)
    /\ hooksFile = "publish"
    /\ inventoryDir = TRUE

NextPlatform == CurrentPlatform \/ UserPlatform \/ ProjectPlatform

SpecPlatform == InitPlatform /\ [][NextPlatform]_vars

----------------------------------------------------------------------------
\* The tool hooks.  A string is a sequence of characters.

\* Templates have at most MaxPieces pieces, commands at most MaxCmdLen
\* characters.
MaxPieces == 3
MaxCmdLen == 3

ARCH_TEMPLATE == <<"{", "a", "r", "c", "h", "}">>
OS_TEMPLATE == <<"{", "o", "s", "}">>
VERSION_TEMPLATE == <<"{", "v", "e", "r", "s", "i", "o", "n", "}">>

\* path::ARCH and path::OS of the platform the tool runs on.
ARCH == <<"x", "6", "4">>
OS == <<"l", "i", "n", "u", "x">>

\* Version::to_string of the version n.0.0.
Digits == <<"0", "1", "2", "3", "4", "5", "6", "7", "8", "9">>
to_string(version) == <<Digits[version + 1], ".", "0", ".", "0">>

format_reversed(a, b) == b \o a

\* format!("{}{}", a, b)
format(a, b) == a \o b

RECURSIVE replace_first(_, _, _)
replace_first(s, from, to) ==
    IF Len(s) < Len(from) THEN s
    ELSE IF SubSeq(s, 1, Len(from)) = from
         THEN to \o SubSeq(s, Len(from) + 1, Len(s))
         ELSE <<Head(s)>> \o replace_first(Tail(s), from, to)

\* str::replace: every non-overlapping match of `from`, left to right.
RECURSIVE replace(_, _, _)
replace(s, from, to) ==
    IF Len(s) < Len(from) THEN s
    ELSE IF SubSeq(s, 1, Len(from)) = from
         THEN to \o replace(SubSeq(s, Len(from) + 1, Len(s)), from, to)
         ELSE <<Head(s)>> \o replace(Tail(s), from, to)

\* char::is_whitespace, on the characters used here.
Whitespace == {" ", "\t"}

\* str::trim
RECURSIVE trim_start(_)
trim_start(s) ==
    IF s # <<>> /\ Head(s) \in Whitespace THEN trim_start(Tail(s)) ELSE s

RECURSIVE trim_end(_)
trim_end(s) ==
    IF s # <<>> /\ s[Len(s)] \in Whitespace
    THEN trim_end(SubSeq(s, 1, Len(s) - 1)) ELSE s

trim(s) == trim_end(trim_start(s))

\* StrExt::parse_cmdline_words, on strings without quotes or escapes: the
\* maximal runs of characters that are not whitespace.
RECURSIVE first_word(_)
first_word(s) ==
    IF s = <<>> \/ Head(s) \in Whitespace THEN <<>>
    ELSE <<Head(s)>> \o first_word(Tail(s))

RECURSIVE parse_cmdline_words(_)
parse_cmdline_words(s) ==
    IF trim_start(s) = <<>> THEN <<>>
    ELSE LET r == trim_start(s)
             w == first_word(r)
         IN  <<w>> \o parse_cmdline_words(SubSeq(r, Len(w) + 1, Len(r)))

\* What resolve() returns, and the Command it spawned, if any.
Resolved(outcome, url, command) ==
    [outcome |-> outcome, url |-> url, command |-> command]

execute_binary_no_check(bin, extra_arg, child) ==
    LET trimmed == trim(bin)
        words == parse_cmdline_words(trimmed)
        cmd == IF words = <<>> THEN <<>> ELSE Head(words)
        args == (IF words = <<>> THEN <<>> ELSE Tail(words))
                  \o (IF extra_arg # None THEN <<unwrap(extra_arg)>> ELSE <<>>)
        command == Some([program |-> cmd, args |-> args])
    IN  IF ~child.spawn THEN Resolved("SpawnError", <<>>, command)
        ELSE IF child.stdout = None THEN Resolved("ReadError", <<>>, command)
        ELSE Resolved("Ok", trim(unwrap(child.stdout)), command)

execute_binary_arg_first(bin, extra_arg, child) ==
    LET trimmed == trim(bin)
        words == parse_cmdline_words(trimmed)
    IN  IF words = <<>>
        THEN Resolved("InvalidCommandError", <<>>, None)
        ELSE LET cmd == Head(words)
                 args == (IF extra_arg # None
                          THEN <<unwrap(extra_arg)>> ELSE <<>>) \o Tail(words)
                 command == Some([program |-> cmd, args |-> args])
             IN  IF ~child.spawn THEN Resolved("SpawnError", <<>>, command)
                 ELSE IF child.stdout = None THEN Resolved("ReadError", <<>>, command)
                 ELSE Resolved("Ok", trim(unwrap(child.stdout)), command)

execute_binary_check_status(bin, extra_arg, child) ==
    LET trimmed == trim(bin)
        words == parse_cmdline_words(trimmed)
    IN  IF words = <<>>
        THEN Resolved("InvalidCommandError", <<>>, None)
        ELSE LET cmd == Head(words)
                 args == Tail(words) \o (IF extra_arg # None
                                          THEN <<unwrap(extra_arg)>> ELSE <<>>)
                 command == Some([program |-> cmd, args |-> args])
             IN  IF ~child.spawn THEN Resolved("SpawnError", <<>>, command)
                 ELSE IF child.stdout = None THEN Resolved("ReadError", <<>>, command)
                 ELSE IF child.status # 0 THEN Resolved("StatusError", <<>>, command)
                 ELSE Resolved("Ok", trim(unwrap(child.stdout)), command)

\* execute_binary.  `child` is what the spawned program turns out to do:
\* whether it can be spawned, its stdout (None when it cannot be read as
\* text) and its exit status.
execute_binary(bin, extra_arg, child) ==
    LET trimmed == trim(bin)
        words == parse_cmdline_words(trimmed)
    IN  IF words = <<>>
        THEN Resolved("InvalidCommandError", <<>>, None)
        ELSE LET cmd == Head(words)
                 args == Tail(words) \o (IF extra_arg # None
                                          THEN <<unwrap(extra_arg)>> ELSE <<>>)
                 command == Some([program |-> cmd, args |-> args])
             IN  IF ~child.spawn THEN Resolved("SpawnError", <<>>, command)
                 ELSE IF child.stdout = None THEN Resolved("ReadError", <<>>, command)
                 ELSE Resolved("Ok", trim(unwrap(child.stdout)), command)

\* DistroHook::resolve
DistroHook_resolve(hook, version, filename, child) ==
    CASE hook.variant = "Prefix" ->
           Resolved("Ok", format(hook.text, filename), None)
      [] hook.variant = "Template" ->
           Resolved("Ok",
                    replace(replace(replace(hook.text, ARCH_TEMPLATE, ARCH),
                                    OS_TEMPLATE, OS),
                            VERSION_TEMPLATE, to_string(version)),
                    None)
      [] hook.variant = "Bin" ->
           execute_binary(hook.text, Some(to_string(version)), child)

\* MetadataHook::resolve
MetadataHook_resolve(hook, filename, child) ==
    CASE hook.variant = "Prefix" ->
           Resolved("Ok", format(hook.text, filename), None)
      [] hook.variant = "Template" ->
           Resolved("Ok",
                    replace(replace(hook.text, ARCH_TEMPLATE, ARCH), OS_TEMPLATE, OS),
                    None)
      [] hook.variant = "Bin" -> execute_binary(hook.text, None, child)

\* The strings of at most n characters of C.
Strings(C, n) == UNION {[1 .. k -> C] : k \in 0 .. n}

RECURSIVE Concat(_)
Concat(ss) == IF ss = <<>> THEN <<>> ELSE Head(ss) \o Concat(Tail(ss))

\* The hooks tried: prefixes and file names, templates put together from the
\* tokens and from text that looks like parts of them, and commands of
\* letters and whitespace.
Prefixes == Strings({"p", "/"}, 2)
Filenames == {<<"f">>, <<"f", ".", "g">>}
TemplatePieces == {ARCH_TEMPLATE, OS_TEMPLATE, VERSION_TEMPLATE,
                   <<"/">>, <<"{">>, <<"}">>, <<"o", "s">>}
Templates == {Concat(ps) : ps \in Strings(TemplatePieces, MaxPieces)}
Commands == Strings({" ", "\t", "a", "b"}, MaxCmdLen)
Stdouts == {<<>>, <<"u">>, <<" ", "u", " ", "v", "\t">>, <<" ">>}
Children == [spawn : {TRUE}, stdout : OptionOf(Stdouts), status : {0, 1}]
              \cup {[spawn |-> FALSE, stdout |-> None, status |-> 0]}

ToolHooks == [variant : {"Prefix"}, text : Prefixes]
               \cup [variant : {"Template"}, text : Templates]
               \cup [variant : {"Bin"}, text : Commands]

\* Only a Bin hook has a child.
ChildrenOf(hook) ==
    IF hook.variant = "Bin" THEN Children ELSE {NoResolution.child}

InitHook ==
    /\ InitSession
    /\ inventory = [cell |-> "empty", node |-> {}, yarn |-> {}]
    /\ toolchain = [node |-> None, yarn |-> None]
    /\ project = None
    /\ hooksFile = "publish"
    /\ inventoryDir = TRUE
    /\ tool_hook \in ToolHooks
    /\ resolution = NoResolution

Resolve(kind, version, filename, child, r) ==
    /\ resolution' = [kind |-> kind, version |-> version, filename |-> filename,
                      child |-> child, outcome |-> r.outcome, url |-> r.url,
                      command |-> r.command]
    /\ UNCHANGED <<hooks, inventory, toolchain, project, event_log, hooksFile,
                   inventoryDir, pc, exitCode, hooksLoads, inventoryLoads,
                   trace, result, tool_hook>>

ResolveDistro ==
    \E version \in Versions.node, filename \in Filenames, child \in ChildrenOf(tool_hook) :
        Resolve("distro", version, filename, child,
                DistroHook_resolve(tool_hook, version, filename, child))

ResolveMetadata ==
    \E filename \in Filenames, child \in ChildrenOf(tool_hook) :
        Resolve("metadata", 0, filename, child,
                MetadataHook_resolve(tool_hook, filename, child))

NextHook == ResolveDistro \/ ResolveMetadata

SpecHook == InitHook /\ [][NextHook]_vars

----------------------------------------------------------------------------
\* Reading the trace.
FetchCalls == {"inventory.fetch_node", "inventory.fetch_yarn"}
SetActiveCalls == {"toolchain.set_active_node", "toolchain.set_active_yarn"}
PinCalls == {"project.pin_node_in_toolchain", "project.pin_yarn_in_toolchain"}
PinOps == {"pin_node_version", "pin_yarn_version"}
InstallOps == {"install_node", "install_yarn"}
EnsureOps == {"ensure_node", "ensure_yarn"}
ExitOps == {"exit", "exit_tool"}
ToolOf == [install_node |-> "node", install_yarn |-> "yarn",
           pin_node_version |-> "node", pin_yarn_version |-> "yarn",
           ensure_node |-> "node", ensure_yarn |-> "yarn",
           fetch_node |-> "node", fetch_yarn |-> "yarn"]
Pinned == project # None /\ unwrap(project).platform # None

----------------------------------------------------------------------------
\* C1: a pin (of Node or of Yarn) in a Session without a project returns the
\* NotInPackage error, calls the inventory's fetch zero times, leaves the
\* user toolchain as it was and issues no write of a project manifest.
C1_PinOutsideProject ==
    [][(project = None /\ result'.op \in PinOps) =>
          /\ result'.outcome = "NotInPackageError"
          /\ Indices(trace', FetchCalls) = {}
          /\ Indices(trace', PinCalls \cup SetActiveCalls) = {}
          /\ toolchain' = toolchain]_vars

C1_Witness ==
    /\ project = None
    /\ result.op = "pin_yarn_version"
    /\ result.outcome = "NotInPackageError"
    /\ inventory.cell = "empty"

\* C2: with a pinned project, current_platform returns exactly the pinned
\* spec whatever the user toolchain is; a pin without a Yarn version gives a
\* result without a Yarn version even when the user has an active Yarn.
C2_PinOverridesUser ==
    (result.op = "current_platform" /\ Pinned) =>
        /\ result.value = unwrap(project).platform
        /\ (unwrap(unwrap(project).platform).yarn = None
               => unwrap(result.value).yarn = None)

C2_Witness ==
    /\ result.op = "current_platform"
    /\ Pinned
    /\ unwrap(unwrap(project).platform).yarn = None
    /\ toolchain.yarn # None
    /\ toolchain.node # None
    /\ toolchain.node # Some(unwrap(unwrap(project).platform).node)
    /\ result.value = unwrap(project).platform

\* C3: without a project pin, current_platform is present exactly when the
\* user has an active Node version, and then holds the user's Node version
\* and the user's Yarn version (absent if the user has none); without an
\* active Node version it is absent even when a Yarn version is active.
C3_UserPlatformWhenUnpinned ==
    (result.op = "current_platform" /\ ~Pinned) =>
        /\ (result.value # None) <=> (toolchain.node # None)
        /\ toolchain.node # None =>
               result.value = Some([node |-> unwrap(toolchain.node),
                                    yarn |-> toolchain.yarn])
        /\ toolchain.node = None => result.value = None

C3_Witness ==
    /\ result.op = "current_platform"
    /\ project # None
    /\ ~Pinned
    /\ toolchain.node # None
    /\ toolchain.yarn # None
    /\ result.value = Some([node |-> unwrap(toolchain.node), yarn |-> toolchain.yarn])

\* C10: project_platform is the project's stored pin: present exactly when
\* there is a project and it has a pin, and then equal to that pin, whatever
\* the user toolchain is.
C10_ProjectPlatformPassthrough ==
    result.op = "project_platform" =>
        /\ (result.value # None) <=> Pinned
        /\ Pinned => result.value = unwrap(project).platform

C10_Witness ==
    /\ result.op = "project_platform"
    /\ Pinned
    /\ result.value # None
    /\ unwrap(result.value).yarn = None
    /\ toolchain.node # None
    /\ toolchain.node # Some(unwrap(result.value).node)


\* C4: in install_node / install_yarn the toolchain is written only after the
\* inventory's fetch has returned a version, and when the call returns Ok the
\* tool's active version is exactly the version that fetch resolved for the
\* requirement given, whether it reported Already or Now.
C4_InstallWritesResolved ==
    [][result'.op \in InstallOps =>
          LET tool == ToolOf[result'.op]
              f == Indices(trace', {FetchCall[tool]})
              w == Indices(trace', SetActiveCalls)
          IN  /\ Cardinality(f) <= 1
              /\ \A j \in w :
                    /\ trace'[j].call = SetActiveCall[tool]
                    /\ \E i \in f : /\ i < j
                                    /\ trace'[i].tag \in {"Already", "Now"}
                                    /\ trace'[j].arg = trace'[i].ret
              /\ result'.outcome = "Ok" =>
                    /\ Cardinality(w) = 1
                    /\ \E i \in f : /\ trace'[i].arg = result'.spec
                                    /\ trace'[i].ret \subseteq result'.spec
                                    /\ toolchain'[tool] = trace'[i].ret
                                    /\ toolchain'[tool] # None]_vars

C4_Witness ==
    /\ result.op = "install_node"
    /\ result.outcome = "Ok"
    /\ Cardinality(result.spec) > 1
    /\ \E i \in Indices(trace, {"inventory.fetch_node"}) :
          /\ trace[i].tag = "Already"
          /\ toolchain.node = trace[i].ret
          /\ trace[i].ret # {1}

\* C5: in pin_node_version / pin_yarn_version with a project, the project is
\* told to write the manifest only after the inventory's fetch has returned
\* a version, it is told the version that fetch resolved, and a pin that
\* returns Ok has issued that write exactly once.
C5_PinWritesResolved ==
    (result.op \in PinOps /\ project # None) =>
        LET tool == ToolOf[result.op]
            f == Indices(trace, {FetchCall[tool]})
            w == Indices(trace, PinCalls)
        IN  /\ Cardinality(f) <= 1
            /\ Cardinality(w) <= 1
            /\ \A j \in w :
                  /\ trace[j].call = PinCall[tool]
                  /\ \E i \in f : /\ i < j
                                  /\ trace[i].arg = result.spec
                                  /\ trace[i].tag \in {"Already", "Now"}
                                  /\ trace[j].arg = trace[i].ret
            /\ result.outcome = "Ok" =>
                  /\ Cardinality(w) = 1
                  /\ \A j \in w : trace[j].tag = "Ok"

C5_Witness ==
    /\ result.op = "pin_node_version"
    /\ project # None
    /\ result.outcome = "Ok"
    /\ Cardinality(result.spec) > 1
    /\ \E j \in Indices(trace, PinCalls) : trace[j].arg # {1}

\* C6: ensure_node / ensure_yarn call the inventory's fetch only when the
\* inventory does not contain the version, and then for exactly that
\* version; so an ensure that finds the version present fetches nothing, and
\* that call and a second ensure of the same version together fetch at most
\* once.
C6_EnsureFetchesOnlyWhenAbsent ==
    [][result'.op \in EnsureOps =>
          LET tool == ToolOf[result'.op]
              v == result'.version
              f == Indices(trace', FetchCalls)
          IN  /\ Cardinality(f) <= 1
              /\ v \in inventory[tool] => f = {}
              /\ \A i \in f : /\ trace'[i].call = FetchCall[tool]
                              /\ trace'[i].arg = {v}
                              /\ v \notin inventory[tool]
              /\ (/\ result.op = result'.op
                  /\ result.version = v
                  /\ \E k \in Indices(trace, {ContainsCall[tool]}) :
                        trace[k].tag = "true")
                 => Cardinality(Indices(trace, FetchCalls)) + Cardinality(f) <= 1]_vars

C6_Witness ==
    /\ result.op = "ensure_node"
    /\ result.outcome = "Ok"
    /\ result.version \in inventory.node
    /\ \E k \in Indices(trace, {"inventory.node.contains"}) : trace[k].tag = "true"
    /\ Indices(trace, FetchCalls) = {}
    /\ hooks.cell = "value"

\* C7: every exit(code) and exit_tool(code) ends the process with exactly the
\* code it was given, whether the hooks load with a publish hook, load
\* without one or fail to load; a failure to load them shows only as a
\* printed warning.
C7_ExitWithIntendedCode ==
    /\ pc = "exited" <=> result.op \in ExitOps
    /\ result.op \in ExitOps =>
          /\ exitCode = Some(result.code)
          /\ trace # <<>>
          /\ trace[Len(trace)].call = "process.exit"
          /\ trace[Len(trace)].arg = {result.code}
          /\ Cardinality(Indices(trace, {"process.exit"})) = 1
          /\ hooks.cell # "value" =>
                /\ hooksFile = "malformed"
                /\ Indices(trace, {"eprintln"}) # {}
          /\ hooks.cell = "value" => Indices(trace, {"eprintln"}) = {}

C7_Witness ==
    /\ result.op = "exit"
    /\ pc = "exited"
    /\ hooksFile = "malformed"
    /\ exitCode = Some(0)
    /\ Indices(trace, {"eprintln"}) # {}

\* C8 as claimed: whenever the process has been ended by exit / exit_tool,
\* the event log's publish step ran before the process ended.
C8_AlwaysFlushedBeforeExit ==
    pc = "exited" =>
        \E i \in Indices(trace, {"event_log.publish"}) :
            \E j \in Indices(trace, {"process.exit"}) : i < j

\* C8 as amended: when the hooks resolve (with or without a publish hook) the
\* event log's publish step runs before the process ends; when they do not
\* resolve a warning is printed instead and the process ends without the
\* event log having been published.
C8_FlushedBeforeExitWhenHooksResolve ==
    pc = "exited" =>
        /\ hooks.cell = "value" =>
              /\ event_log.published
              /\ \E i \in Indices(trace, {"event_log.publish"}) :
                    \A j \in Indices(trace, {"process.exit"}) : i < j
        /\ hooks.cell # "value" =>
              /\ ~event_log.published
              /\ Indices(trace, {"event_log.publish"}) = {}
              /\ \E i \in Indices(trace, {"eprintln"}) :
                    \A j \in Indices(trace, {"process.exit"}) : i < j

C8_Witness ==
    /\ pc = "exited"
    /\ hooksFile = "nopublish"
    /\ event_log.published
    /\ \E i \in Indices(trace, {"event_log.publish"}) : trace[i].tag = "None"

\* C9 as claimed: the hooks and the inventory are each loaded at most once in
\* a Session.
C9_LoadedAtMostOnce ==
    hooksLoads <= 1 /\ inventoryLoads <= 1

\* C9 as amended: the hooks and the inventory are loaded only by an access
\* that finds the cell empty, and at most once by one call; once a load has
\* succeeded every later access returns the cached value without loading
\* again, so each is loaded successfully at most once in a Session.  A load
\* that failed may be repeated by a later access.
C9_LoadedOnceUnlessFailed ==
    [][/\ Cardinality(Indices(trace', {"hooks.load"})) <= 1
       /\ Cardinality(Indices(trace', {"inventory.load"})) <= 1
       /\ hooks.cell # "empty" =>
             /\ hooks' = hooks
             /\ hooksLoads' = hooksLoads
             /\ Indices(trace', {"hooks.load"}) = {}
       /\ inventory.cell # "empty" =>
             /\ inventory'.cell = inventory.cell
             /\ inventoryLoads' = inventoryLoads
             /\ Indices(trace', {"inventory.load"}) = {}
       /\ hooks.cell = "value" => hooksLoads = 1
       /\ inventory.cell = "value" => inventoryLoads = 1
       /\ hooksLoads' = hooksLoads \/ hooks.cell = "empty"
       /\ inventoryLoads' = inventoryLoads \/ inventory.cell = "empty"]_vars

C9_Witness ==
    /\ result.op = "hooks"
    /\ result.outcome = "Ok"
    /\ hooks.cell = "value"
    /\ inventory.cell = "value"
    /\ trace = <<>>
    /\ hooksLoads = 1
    /\ inventoryLoads = 1

----------------------------------------------------------------------------
\* Reading a resolution.
AllWhitespace(s) == \A i \in DOMAIN s : s[i] \in Whitespace
StartsWith(s, pre) == Len(pre) <= Len(s) /\ SubSeq(s, 1, Len(pre)) = pre
Occurs(s, sub) ==
    \E i \in 0 .. Len(s) - Len(sub) : SubSeq(s, i + 1, i + Len(sub)) = sub

\* The text with each token replaced by its value in one pass from the left.
RECURSIVE Substituted(_, _)
Substituted(s, tokens) ==
    IF s = <<>> THEN <<>>
    ELSE IF \E k \in tokens : StartsWith(s, k.token)
         THEN LET k == CHOOSE k \in tokens : StartsWith(s, k.token)
              IN  k.value \o Substituted(SubSeq(s, Len(k.token) + 1, Len(s)), tokens)
         ELSE <<Head(s)>> \o Substituted(Tail(s), tokens)

PlatformTokens == {[token |-> ARCH_TEMPLATE, value |-> ARCH],
                   [token |-> OS_TEMPLATE, value |-> OS]}
TokensOf(r) ==
    IF r.kind = "distro"
    THEN PlatformTokens \cup {[token |-> VERSION_TEMPLATE, value |-> to_string(r.version)]}
    ELSE PlatformTokens

\* C11: a Bin hook whose command is empty or all whitespace fails with
\* InvalidCommand, as a distribution hook and as a metadata hook, whatever
\* the version, and spawns no child.
C11_BlankCommandInvalid ==
    (resolution.kind # "none" /\ tool_hook.variant = "Bin"
       /\ AllWhitespace(tool_hook.text)) =>
        /\ resolution.outcome = "InvalidCommandError"
        /\ resolution.command = None

C11_Witness ==
    /\ resolution.kind = "distro"
    /\ tool_hook.variant = "Bin"
    /\ tool_hook.text = <<" ", "\t">>
    /\ resolution.outcome = "InvalidCommandError"
    /\ resolution.command = None

\* C12: the program a Bin hook spawns is the first word of the command; a
\* distribution hook gives it the remaining words followed by the version's
\* string as the last argument, a metadata hook the remaining words only.
C12_BinArguments ==
    (resolution.kind # "none" /\ tool_hook.variant = "Bin"
       /\ resolution.command # None) =>
        LET words == parse_cmdline_words(tool_hook.text)
            c == unwrap(resolution.command)
        IN  /\ words # <<>>
            /\ c.program = Head(words)
            /\ \A i \in 1 .. Len(words) - 1 : c.args[i] = words[i + 1]
            /\ resolution.kind = "distro" =>
                  /\ Len(c.args) = Len(words)
                  /\ c.args[Len(c.args)] = to_string(resolution.version)
            /\ resolution.kind = "metadata" => Len(c.args) = Len(words) - 1

C12_Witness ==
    /\ resolution.kind = "distro"
    /\ tool_hook.variant = "Bin"
    /\ tool_hook.text = <<"a", " ", "b">>
    /\ resolution.version = MaxVersion
    /\ resolution.command =
          Some([program |-> <<"a">>, args |-> <<<<"b">>, to_string(MaxVersion)>>])

\* C13: a distribution Template resolves to its text with every {arch}, {os}
\* and {version} replaced by the architecture, the OS and the version's
\* string; a metadata Template has {arch} and {os} replaced and {version}
\* left as it is; the rest of the text is kept, so a template without a
\* token resolves to itself; the file name plays no part.
C13_TemplateSubstitution ==
    (resolution.kind # "none" /\ tool_hook.variant = "Template") =>
        /\ resolution.outcome = "Ok"
        /\ resolution.command = None
        /\ resolution.url = Substituted(tool_hook.text, TokensOf(resolution))
        /\ (\A k \in TokensOf(resolution) : ~Occurs(tool_hook.text, k.token))
              => resolution.url = tool_hook.text

C13_Witness ==
    /\ resolution.kind = "metadata"
    /\ tool_hook.variant = "Template"
    /\ tool_hook.text = OS_TEMPLATE \o VERSION_TEMPLATE \o OS_TEMPLATE
    /\ resolution.url = OS \o VERSION_TEMPLATE \o OS

\* C14: Prefix(p) resolves to p followed by the file name f and nothing
\* else, as a distribution hook (whatever the version) and as a metadata
\* hook.
C14_PrefixConcatenation ==
    (resolution.kind # "none" /\ tool_hook.variant = "Prefix") =>
        LET p == tool_hook.text
            f == resolution.filename
            u == resolution.url
        IN  /\ resolution.outcome = "Ok"
            /\ resolution.command = None
            /\ Len(u) = Len(p) + Len(f)
            /\ SubSeq(u, 1, Len(p)) = p
            /\ SubSeq(u, Len(p) + 1, Len(u)) = f

C14_Witness ==
    /\ resolution.kind = "distro"
    /\ tool_hook.variant = "Prefix"
    /\ tool_hook.text = <<"p", "/">>
    /\ resolution.filename = <<"f", ".", "g">>
    /\ resolution.url = <<"p", "/", "f", ".", "g">>

\* C18: when a Bin hook's program spawns and its stdout can be read as
\* text, the hook resolves to that stdout without its leading and trailing
\* whitespace, whatever the child's exit status; a spawned Bin hook fails
\* only when the spawn fails or the stdout cannot be read.
C18_ExitStatusIgnored ==
    (resolution.kind # "none" /\ tool_hook.variant = "Bin"
       /\ resolution.command # None) =>
        LET child == resolution.child
            u == resolution.url
        IN  /\ (child.spawn /\ child.stdout # None) =>
                  LET out == unwrap(child.stdout)
                  IN  /\ resolution.outcome = "Ok"
                      /\ u = <<>> \/ (u[1] \notin Whitespace /\ u[Len(u)] \notin Whitespace)
                      /\ \E i \in 0 .. Len(out) : \E j \in i .. Len(out) :
                            /\ AllWhitespace(SubSeq(out, 1, i))
                            /\ u = SubSeq(out, i + 1, j)
                            /\ AllWhitespace(SubSeq(out, j + 1, Len(out)))
            /\ resolution.outcome # "Ok" => (~child.spawn \/ child.stdout = None)

C18_Witness ==
    /\ resolution.kind = "metadata"
    /\ tool_hook.variant = "Bin"
    /\ resolution.child.spawn
    /\ resolution.child.status = 1
    /\ resolution.child.stdout = Some(<<" ", "u", " ", "v", "\t">>)
    /\ resolution.outcome = "Ok"
    /\ resolution.url = <<"u", " ", "v">>

----------------------------------------------------------------------------
\* Reading the trace of a call that goes through the fetch step.
FetchOps == {"fetch_node", "fetch_yarn"}
FetchStepErrors == {"InventoryError", "HooksError", "FetchError"}
Other == [node |-> "yarn", yarn |-> "node"]
Fetches(tr) == {i \in Indices(tr, FetchCalls) : tr[i].tag \in {"Already", "Now"}}
FailedFetches(tr) == {i \in Indices(tr, FetchCalls) : tr[i].tag = "Err"}

\* C15: when the fetch step of an install, or of a pin in a project, fails
\* (the inventory does not load, the hooks do not load, or the inventory's
\* fetch returns an error), the call returns the error of the step that
\* failed, the user toolchain is as it was before the call, and neither the
\* toolchain nor the project manifest has been written.
C15_FetchFailurePropagates ==
    [][(/\ result'.op \in InstallOps \cup PinOps
        /\ result'.op \in PinOps => project # None
        /\ Fetches(trace') = {}) =>
          /\ result'.outcome \in FetchStepErrors
          /\ result'.outcome = "InventoryError" <=> inventory'.cell # "value"
          /\ result'.outcome = "HooksError" <=>
                (inventory'.cell = "value" /\ hooks'.cell # "value")
          /\ result'.outcome = "FetchError" <=> FailedFetches(trace') # {}
          /\ toolchain' = toolchain
          /\ Indices(trace', SetActiveCalls \cup PinCalls) = {}]_vars

C15_Witness ==
    /\ result.op = "install_node"
    /\ result.outcome = "FetchError"
    /\ FailedFetches(trace) # {}
    /\ toolchain.node = Some(1)
    /\ result.spec = exact(MaxVersion)
    /\ Indices(trace, SetActiveCalls) = {}

\* C16: current_platform is computed from the toolchain as it is when it is
\* called, never from an earlier answer: without a project pin it is the
\* user platform of the toolchain of that moment, and called right after an
\* install that returned Ok it carries the version that install resolved, as
\* the Node version after install_node and as the Yarn version after
\* install_yarn when a Node version is active.
C16_PlatformRecomputed ==
    [][(result'.op = "current_platform" /\ ~Pinned) =>
          /\ result'.value = user_platform([toolchain |-> toolchain])
          /\ (result.op \in InstallOps /\ result.outcome = "Ok") =>
                \E i \in Fetches(trace) :
                   /\ result.op = "install_node" =>
                         /\ result'.value # None
                         /\ Some(unwrap(result'.value).node) = trace[i].ret
                   /\ (result.op = "install_yarn" /\ toolchain.node # None) =>
                         /\ result'.value # None
                         /\ unwrap(result'.value).yarn = trace[i].ret]_vars

C16_Witness ==
    /\ result.op = "current_platform"
    /\ ~Pinned
    /\ result.value = Some([node |-> MaxVersion, yarn |-> Some(MaxYarn)])
    /\ inventory.node = {MaxVersion}

\* C17: a pin that returns Ok has written the manifest through the project
\* and has left the Project value the Session shares as it was: after it
\* project_platform, and with it current_platform in a project that had a
\* pin, return what they returned before the pin.
C17_PinKeepsProjectHandle ==
    [][(result'.op \in PinOps /\ result'.outcome = "Ok") =>
          /\ Indices(trace', PinCalls) # {}
          /\ project' = project
          /\ project_platform(project') = project_platform(project)
          /\ Pinned => current_platform(project', [toolchain |-> toolchain'])
                          = current_platform(project, [toolchain |-> toolchain])]_vars

C17_Witness ==
    /\ result.op = "pin_node_version"
    /\ result.outcome = "Ok"
    /\ Pinned
    /\ \E j \in Indices(trace, PinCalls) :
          /\ trace[j].tag = "Ok"
          /\ trace[j].arg # {unwrap(project_platform(project)).node}

\* C19: what the Session operations leave alone.  A fetch or an ensure
\* changes no active version and writes neither the toolchain nor the
\* manifest; an install writes only the active version of its own tool and
\* never the manifest; a pin changes no active version and does not write
\* the toolchain.
C19_OperationFrames ==
    [][/\ result'.op \in FetchOps \cup EnsureOps =>
             /\ toolchain' = toolchain
             /\ Indices(trace', SetActiveCalls \cup PinCalls) = {}
       /\ result'.op \in InstallOps =>
             /\ toolchain'[Other[ToolOf[result'.op]]]
                   = toolchain[Other[ToolOf[result'.op]]]
             /\ Indices(trace', SetActiveCalls)
                   = Indices(trace', {SetActiveCall[ToolOf[result'.op]]})
             /\ Indices(trace', PinCalls) = {}
       /\ result'.op \in PinOps =>
             /\ toolchain' = toolchain
             /\ Indices(trace', SetActiveCalls) = {}]_vars

C19_Witness ==
    /\ result.op = "fetch_node"
    /\ result.outcome = "Ok"
    /\ \E i \in Fetches(trace) : /\ trace[i].tag = "Now"
                                 /\ trace[i].ret = {MaxVersion}
    /\ toolchain.node = Some(1)
    /\ toolchain.yarn # None

\* C20: ensure_node / ensure_yarn load the inventory first and come to the
\* hooks only when the inventory does not hold the version: with the version
\* held they return Ok and neither load nor change the hooks, even when the
\* hook configuration does not parse.  Every call that goes through the
\* fetch step has the inventory and then the hooks resolved before the
\* inventory's fetch is called, and fetch, install and pin in a project do
\* not return before the hooks were asked for, unless the inventory failed.
C20_HooksOnlyWhenNeeded ==
    [][/\ (/\ result'.op \in EnsureOps
           /\ inventory'.cell = "value"
           /\ result'.version \in inventory[ToolOf[result'.op]]) =>
             /\ result'.outcome = "Ok"
             /\ hooks' = hooks
             /\ hooksLoads' = hooksLoads
             /\ Indices(trace', {"hooks.load"} \cup FetchCalls) = {}
       /\ result'.op \in EnsureOps \cup FetchOps \cup InstallOps \cup PinOps =>
             /\ Indices(trace', FetchCalls) # {} =>
                   (inventory'.cell = "value" /\ hooks'.cell = "value")
             /\ \A f \in Indices(trace', FetchCalls) :
                   \A l \in Indices(trace', {"inventory.load", "hooks.load"}) : l < f
             /\ \A h \in Indices(trace', {"hooks.load"}) :
                   /\ inventory'.cell = "value"
                   /\ \A l \in Indices(trace', {"inventory.load"}) : l < h
             /\ inventory'.cell # "value" => hooks' = hooks
       /\ (/\ result'.op \in FetchOps \cup InstallOps \cup PinOps
           /\ result'.op \in PinOps => project # None
           /\ result'.outcome # "InventoryError") =>
             (hooks'.cell = "value" \/ result'.outcome = "HooksError")]_vars

C20_Witness ==
    /\ result.op = "ensure_node"
    /\ result.outcome = "Ok"
    /\ hooksFile = "malformed"
    /\ hooks.cell = "empty"
    /\ hooksLoads = 0
    /\ \E i \in Indices(trace, {"inventory.node.contains"}) : trace[i].tag = "true"
    /\ Indices(trace, {"inventory.load"}) # {}


====
